---- MODULE Spec2Model ----
(***************************************************************************)
(* NeuroSecretary: a Telegram bot that turns a meeting recording into a    *)
(* protocol.  Two scripts are modelled:                                    *)
(*   neuro_secretary2.py  - the handler with error handling, the duration  *)
(*                          ceiling, the empty-audio check and the on-disk *)
(*                          protocol cache                                 *)
(*   neuro_secretary.py   - the first handler: same stage order, no guard  *)
(*                          and no cache                                   *)
(* A request is one run of handle_audio.  The handlers of one bot process   *)
(* are coroutines of its event loop: they interleave at the awaits         *)
(* (get_file, download_to_drive, reply_text), and the synchronous calls in *)
(* between (clean_audio .. generate_protocol) run without interleaving.    *)
(* Bot processes started in the same working directory share its files.   *)
(* The local disk (temporary audio files, cache files) is modelled state:  *)
(* a file operation fails only when the file is not there.  The chat       *)
(* platform, the speech model and the LLM are the environment: their       *)
(* answers are drawn from small sets and their calls may raise.  The fixed *)
(* failure notice is taken to be accepted by the platform.                 *)
(***************************************************************************)
EXTENDS Integers, Sequences, FiniteSets, TLC

VARIABLES
    script,     \* which file was started: "neuro_secretary2" or "neuro_secretary"
    procOf,     \* request -> the bot process (event loop) that handles it
    pc,         \* request -> position of its handle_audio coroutine
    fid,        \* request -> file.file_id of the attachment (NoFileId before get_file)
    disk,       \* audio files in the working directory: name -> audio, for the files that exist
    cache,      \* files of the cache directory: name -> stored text, for the files that exist
    transcript, \* request -> local `transcript`
    analysis,   \* request -> local `analysis`
    result,     \* request -> local `result` of generate_protocol (LLM reply on a miss)
    protocol,   \* request -> local `protocol`
    replies,    \* request -> messages sent with update.message.reply_text
    log,        \* request -> logger.error records, by the function that logged
    calls,      \* request -> history: functions entered, returned from, library calls
    hit,        \* request -> history: generate_protocol took the cache-hit branch
    origin,     \* history: analysis -> result of the first generate_protocol that wrote it
    overlapped  \* request -> history: requests whose generate_protocol ran during its own

vars == <<script, procOf, pc, fid, disk, cache, transcript, analysis, result,
          protocol, replies, log, calls, hit, origin, overlapped>>

-----------------------------------------------------------------------------
(* Bounds and input sets *)

NumRequests == 2
Requests == 1..NumRequests

\* Python's None for a text local that is not assigned yet
None == <<"None">>
NoFileId == "NoFileId"

\* MAX_AUDIO_DURATION = 60 * 60 * 2
MAX_AUDIO_DURATION == 60 * 60 * 2

\* The attachments the platform can serve, by file_id: frames and sample rate as
\* soundfile reports them: no samples, 300 s, 7200 s and 7201 s.
FileIds == {"empty", "short", "exact", "over"}
Remote(f) ==
    CASE f = "empty" -> [frames |-> 0, samplerate |-> 1, cleaned |-> FALSE]
      [] f = "short" -> [frames |-> 300, samplerate |-> 1, cleaned |-> FALSE]
      [] f = "exact" -> [frames |-> MAX_AUDIO_DURATION, samplerate |-> 1, cleaned |-> FALSE]
      [] f = "over"  -> [frames |-> MAX_AUDIO_DURATION + 1, samplerate |-> 1, cleaned |-> FALSE]

\* Texts are sequences of characters; "CR" and "LF" are the two line-end characters.
Transcripts == {<<"t">>}
Analyses == {<<"a">>, <<"b">>}
Replies == {<< >>, <<"p">>, <<"q", "CR", "LF", "r">>}

\* the two texts handle_audio sends
NoticeMsg == [kind |-> "notice", text |-> <<"error">>]
ProtocolMsg(p) == [kind |-> "protocol", text |-> p]

-----------------------------------------------------------------------------
(* File names *)

\* f"temp_{md5(file.file_id)}.wav": one name per file_id
TempName(f) == <<"temp_", f, ".wav">>

\* os.path.join("cache", f"{md5(analysis_result)}.txt"): one name per analysis text
\* (md5 is collision-free on the modelled texts)
CacheFile(a) == <<"cache/">> \o a \o <<".txt">>

\* a directory is a function from the names of its files to their contents
Exists(dir, name) == name \in DOMAIN dir
WriteFile(dir, name, content) == (name :> content) @@ dir
RemoveFile(dir, name) == [n \in (DOMAIN dir) \ {name} |-> dir[n]]

-----------------------------------------------------------------------------
(* Text-mode file I/O: open(path, "w") / open(path, "r") with newline=None *)

\* os.linesep of the platform the bot runs on (POSIX)
linesep == <<"LF">>

RECURSIVE WriteText(_)
\* f.write(s) in text mode: every "\n" is written as os.linesep
WriteText(s) ==
    IF s = << >> THEN << >>
    ELSE (IF Head(s) = "LF" THEN linesep ELSE <<Head(s)>>) \o WriteText(Tail(s))

RECURSIVE ReadText(_)
\* f.read() in text mode: universal newlines, "\r\n" and "\r" are returned as "\n"
ReadText(s) ==
    IF s = << >> THEN << >>
    ELSE IF Head(s) = "CR"
         THEN IF Len(s) >= 2 /\ s[2] = "LF"
              THEN <<"LF">> \o ReadText(Tail(Tail(s)))
              ELSE <<"LF">> \o ReadText(Tail(s))
         ELSE <<Head(s)>> \o ReadText(Tail(s))

-----------------------------------------------------------------------------
(* Guards of the stage functions *)

\* clean_audio as neuro_secretary.py has it: the sample count is not looked at
IsEmptyAudio_v1(a) == FALSE

\* len(data) == 0
IsEmptyAudio(a) == a.frames = 0

\* the ceiling compared with >= instead of >
TooLong_ge(a) == a.frames >= MAX_AUDIO_DURATION * a.samplerate

\* info.duration > MAX_AUDIO_DURATION, with info.duration = frames / samplerate
TooLong(a) == a.frames > MAX_AUDIO_DURATION * a.samplerate

-----------------------------------------------------------------------------
(* Scheduling: the synchronous stretch of handle_audio, from clean_audio to the
   call of reply_text, runs without yielding to the event loop of its process *)

SyncPcs == {"Cleaned", "Transcribed", "Analyzed", "GenMiss", "GenReplied", "ProtocolReady"}

LoopFree(r) ==
    \A q \in Requests \ {r} : procOf[q] = procOf[r] => pc[q] \notin SyncPcs

\* requests that are inside generate_protocol, between the cache lookup and the write
InGenerator == {q \in Requests : pc[q] \in {"GenMiss", "GenReplied"}}

-----------------------------------------------------------------------------
(* Initial state *)

InitRequests ==
    /\ pc = [r \in Requests |-> "Received"]
    /\ fid = [r \in Requests |-> NoFileId]
    /\ disk = << >>
    /\ cache = << >>
    /\ transcript = [r \in Requests |-> None]
    /\ analysis = [r \in Requests |-> None]
    /\ result = [r \in Requests |-> None]
    /\ protocol = [r \in Requests |-> None]
    /\ replies = [r \in Requests |-> << >>]
    /\ log = [r \in Requests |-> << >>]
    /\ calls = [r \in Requests |-> << >>]
    /\ hit = [r \in Requests |-> FALSE]
    /\ origin = [a \in Analyses |-> None]
    /\ overlapped = [r \in Requests |-> {}]

\* one bot process running neuro_secretary2.py
Init ==
    /\ script = "neuro_secretary2"
    /\ procOf = [r \in Requests |-> 1]
    /\ InitRequests

\* bot processes running neuro_secretary2.py in one working directory, a request each
InitConc ==
    /\ script = "neuro_secretary2"
    /\ procOf = [r \in Requests |-> r]
    /\ InitRequests

\* one bot process running either script
InitBoth ==
    /\ script \in {"neuro_secretary", "neuro_secretary2"}
    /\ procOf = [r \in Requests |-> 1]
    /\ InitRequests

-----------------------------------------------------------------------------
(* neuro_secretary2.py: handle_audio and the functions it calls *)

\* except Exception in handle_audio: logger.error, then the failure notice
Fail(r, loggers, called) ==
    /\ pc' = [pc EXCEPT ![r] = "Failed"]
    /\ log' = [log EXCEPT ![r] = @ \o loggers \o <<"handle_audio">>]
    /\ calls' = [calls EXCEPT ![r] = @ \o called \o <<"reply_text(notice)">>]
    /\ replies' = [replies EXCEPT ![r] = Append(@, NoticeMsg)]

\* a step of handle_audio that returns normally
Step(r, to, called) ==
    /\ pc' = [pc EXCEPT ![r] = to]
    /\ calls' = [calls EXCEPT ![r] = @ \o called]
    /\ UNCHANGED <<log, replies>>

\* file = await update.message.audio.get_file(); file_hash; input_file
GetFile(r) ==
    /\ script = "neuro_secretary2"
    /\ pc[r] = "Received"
    /\ LoopFree(r)
    /\ \/ \E f \in FileIds :
            /\ fid' = [fid EXCEPT ![r] = f]
            /\ Step(r, "GotFile", <<"get_file">>)
       \/ /\ Fail(r, << >>, <<"get_file">>)
          /\ UNCHANGED fid
    /\ UNCHANGED <<script, procOf, disk, cache, transcript, analysis, result,
                   protocol, hit, origin, overlapped>>

\* download_to_drive called without await: the handler goes on before the file is there
Download_noawait(r) ==
    /\ script = "neuro_secretary2"
    /\ pc[r] = "GotFile"
    /\ LoopFree(r)
    /\ Step(r, "Downloaded", <<"download_to_drive">>)
    /\ UNCHANGED <<script, procOf, fid, disk, cache, transcript, analysis, result,
                   protocol, hit, origin, overlapped>>

\* await file.download_to_drive(input_file)
Download(r) ==
    /\ script = "neuro_secretary2"
    /\ pc[r] = "GotFile"
    /\ LoopFree(r)
    /\ \/ /\ disk' = WriteFile(disk, TempName(fid[r]), Remote(fid[r]))
          /\ Step(r, "Downloaded", <<"download_to_drive", "download_to_drive:return">>)
       \/ /\ Fail(r, << >>, <<"download_to_drive">>)
          /\ UNCHANGED disk
    /\ UNCHANGED <<script, procOf, fid, cache, transcript, analysis, result,
                   protocol, hit, origin, overlapped>>

\* clean_audio(input_file, input_file)
CleanAudio(r) ==
    LET name == TempName(fid[r]) IN
    /\ script = "neuro_secretary2"
    /\ pc[r] = "Downloaded"
    /\ LoopFree(r)
    /\ IF ~Exists(disk, name)
       THEN \* sf.read raises: no such file
            /\ Fail(r, <<"clean_audio">>, <<"clean_audio", "sf.read">>)
            /\ UNCHANGED disk
       ELSE IF IsEmptyAudio(disk[name])
       THEN \* raise ValueError("Пустой аудиофайл")
            /\ Fail(r, <<"clean_audio">>, <<"clean_audio", "sf.read">>)
            /\ UNCHANGED disk
       ELSE /\ disk' = WriteFile(disk, name, [disk[name] EXCEPT !.cleaned = TRUE])
            /\ Step(r, "Cleaned", <<"clean_audio", "sf.read", "nr.reduce_noise",
                                    "sf.write", "clean_audio:return">>)
    /\ UNCHANGED <<script, procOf, fid, cache, transcript, analysis, result,
                   protocol, hit, origin, overlapped>>

\* transcript = transcribe_audio(input_file)
TranscribeAudio(r) ==
    LET name == TempName(fid[r]) IN
    /\ script = "neuro_secretary2"
    /\ pc[r] = "Cleaned"
    /\ IF ~Exists(disk, name)
       THEN \* sf.info raises: no such file
            /\ Fail(r, <<"transcribe_audio">>, <<"transcribe_audio", "sf.info">>)
            /\ UNCHANGED transcript
       ELSE IF TooLong(disk[name])
       THEN \* raise ValueError("Аудио слишком длинное ...")
            /\ Fail(r, <<"transcribe_audio">>, <<"transcribe_audio", "sf.info">>)
            /\ UNCHANGED transcript
       ELSE \/ \E t \in Transcripts :
                 /\ transcript' = [transcript EXCEPT ![r] = t]
                 /\ Step(r, "Transcribed", <<"transcribe_audio", "sf.info",
                                             "WHISPER_MODEL.transcribe",
                                             "transcribe_audio:return">>)
            \/ \* WHISPER_MODEL.transcribe raises
               /\ Fail(r, <<"transcribe_audio">>, <<"transcribe_audio", "sf.info",
                                                    "WHISPER_MODEL.transcribe">>)
               /\ UNCHANGED transcript
    /\ UNCHANGED <<script, procOf, fid, disk, cache, analysis, result,
                   protocol, hit, origin, overlapped>>

\* analyze_text whose except clause logs and does not re-raise: it returns None
AnalyzeText_swallow(r) ==
    /\ script = "neuro_secretary2"
    /\ pc[r] = "Transcribed"
    /\ \/ \E a \in Analyses :
            /\ analysis' = [analysis EXCEPT ![r] = a]
            /\ Step(r, "Analyzed", <<"analyze_text", "ChatCompletion.create(analyze)",
                                     "analyze_text:return">>)
       \/ /\ pc' = [pc EXCEPT ![r] = "Analyzed"]
          /\ calls' = [calls EXCEPT ![r] = @ \o <<"analyze_text", "ChatCompletion.create(analyze)">>]
          /\ log' = [log EXCEPT ![r] = Append(@, "analyze_text")]
          /\ UNCHANGED <<analysis, replies>>
    /\ UNCHANGED <<script, procOf, fid, disk, cache, transcript, result,
                   protocol, hit, origin, overlapped>>

\* analysis = analyze_text(transcript)
AnalyzeText(r) ==
    /\ script = "neuro_secretary2"
    /\ pc[r] = "Transcribed"
    /\ \/ \E a \in Analyses :
            /\ analysis' = [analysis EXCEPT ![r] = a]
            /\ Step(r, "Analyzed", <<"analyze_text", "ChatCompletion.create(analyze)",
                                     "analyze_text:return">>)
       \/ \* openai.ChatCompletion.create raises
          /\ Fail(r, <<"analyze_text">>, <<"analyze_text", "ChatCompletion.create(analyze)">>)
          /\ UNCHANGED analysis
    /\ UNCHANGED <<script, procOf, fid, disk, cache, transcript, result,
                   protocol, hit, origin, overlapped>>

\* generate_protocol, up to the cache lookup: on a hit, return f.read()
GenLookup(r) ==
    LET cache_file == CacheFile(analysis[r]) IN
    /\ script = "neuro_secretary2"
    /\ pc[r] = "Analyzed"
    /\ IF Exists(cache, cache_file)
       THEN /\ protocol' = [protocol EXCEPT ![r] = ReadText(cache[cache_file])]
            /\ hit' = [hit EXCEPT ![r] = TRUE]
            /\ Step(r, "ProtocolReady", <<"generate_protocol", "os.path.exists", "f.read",
                                          "generate_protocol:return">>)
       ELSE /\ Step(r, "GenMiss", <<"generate_protocol", "os.path.exists">>)
            /\ UNCHANGED <<protocol, hit>>
    /\ overlapped' = [q \in Requests |->
                        IF q = r THEN overlapped[q] \cup InGenerator
                        ELSE IF q \in InGenerator THEN overlapped[q] \cup {r}
                        ELSE overlapped[q]]
    /\ UNCHANGED <<script, procOf, fid, disk, cache, transcript, analysis, result, origin>>

\* generate_protocol that opens the cache file for writing before it calls the LLM:
\* a failed call leaves an empty entry
GenCallLLM_openFirst(r) ==
    /\ script = "neuro_secretary2"
    /\ pc[r] = "GenMiss"
    /\ \/ \E p \in Replies :
            /\ result' = [result EXCEPT ![r] = p]
            /\ Step(r, "GenReplied", <<"ChatCompletion.create(protocol)">>)
            /\ UNCHANGED cache
       \/ /\ Fail(r, <<"generate_protocol">>, <<"ChatCompletion.create(protocol)">>)
          /\ cache' = WriteFile(cache, CacheFile(analysis[r]), << >>)
          /\ UNCHANGED result
    /\ UNCHANGED <<script, procOf, fid, disk, transcript, analysis,
                   protocol, hit, origin, overlapped>>

\* generate_protocol, cache miss: response = openai.ChatCompletion.create(...); result
GenCallLLM(r) ==
    /\ script = "neuro_secretary2"
    /\ pc[r] = "GenMiss"
    /\ \/ \E p \in Replies :
            /\ result' = [result EXCEPT ![r] = p]
            /\ Step(r, "GenReplied", <<"ChatCompletion.create(protocol)">>)
       \/ \* openai.ChatCompletion.create raises
          /\ Fail(r, <<"generate_protocol">>, <<"ChatCompletion.create(protocol)">>)
          /\ UNCHANGED result
    /\ UNCHANGED <<script, procOf, fid, disk, cache, transcript, analysis,
                   protocol, hit, origin, overlapped>>

\* generate_protocol, cache miss: f.write(result); return result
GenWrite(r) ==
    LET cache_file == CacheFile(analysis[r]) IN
    /\ script = "neuro_secretary2"
    /\ pc[r] = "GenReplied"
    /\ cache' = WriteFile(cache, cache_file, WriteText(result[r]))
    /\ protocol' = [protocol EXCEPT ![r] = result[r]]
    /\ origin' = [origin EXCEPT ![analysis[r]] = IF @ = None THEN result[r] ELSE @]
    /\ Step(r, "ProtocolReady", <<"f.write", "generate_protocol:return">>)
    /\ UNCHANGED <<script, procOf, fid, disk, transcript, analysis, result, hit, overlapped>>

\* await update.message.reply_text(f"... {protocol}", parse_mode="Markdown")
SendReply(r) ==
    /\ script = "neuro_secretary2"
    /\ pc[r] = "ProtocolReady"
    /\ \/ /\ pc' = [pc EXCEPT ![r] = "Delivered"]
          /\ calls' = [calls EXCEPT ![r] = @ \o <<"reply_text", "reply_text:return">>]
          /\ replies' = [replies EXCEPT ![r] = Append(@, ProtocolMsg(protocol[r]))]
          /\ UNCHANGED log
       \/ \* the platform rejects the message (Markdown entities, length) or is unreachable
          Fail(r, << >>, <<"reply_text">>)
    /\ UNCHANGED <<script, procOf, fid, disk, cache, transcript, analysis, result,
                   protocol, hit, origin, overlapped>>

\* handle_audio without the os.remove line, as in neuro_secretary.py
RemoveTemp_noremove(r) ==
    /\ script = "neuro_secretary2"
    /\ pc[r] = "Delivered"
    /\ LoopFree(r)
    /\ Step(r, "Done", << >>)
    /\ UNCHANGED <<script, procOf, fid, disk, cache, transcript, analysis, result,
                   protocol, hit, origin, overlapped>>

\* os.remove(input_file), inside the try block
RemoveTemp(r) ==
    LET name == TempName(fid[r]) IN
    /\ script = "neuro_secretary2"
    /\ pc[r] = "Delivered"
    /\ LoopFree(r)
    /\ IF Exists(disk, name)
       THEN /\ disk' = RemoveFile(disk, name)
            /\ Step(r, "Done", <<"os.remove">>)
       ELSE \* FileNotFoundError
            /\ Fail(r, << >>, <<"os.remove">>)
            /\ UNCHANGED disk
    /\ UNCHANGED <<script, procOf, fid, cache, transcript, analysis, result,
                   protocol, hit, origin, overlapped>>

Next ==
    \E r \in Requests :
        \/ GetFile(r)
        \/ Download(r)
        \/ CleanAudio(r)
        \/ TranscribeAudio(r)
        \/ AnalyzeText(r)
        \/ GenLookup(r)
        \/ GenCallLLM(r)
        \/ GenWrite(r)
        \/ SendReply(r)
        \/ RemoveTemp(r)

-----------------------------------------------------------------------------
(* neuro_secretary.py: the first handle_audio.  No try block: an exception leaves
   the handler and nothing is sent. *)

InputAudio == <<"input_audio.wav">>
CleanedAudio == <<"cleaned_audio.wav">>

\* an exception propagates out of handle_audio
Raise1(r, called) ==
    /\ pc' = [pc EXCEPT ![r] = "Raised"]
    /\ calls' = [calls EXCEPT ![r] = @ \o called]
    /\ UNCHANGED <<log, replies>>

\* file = await update.message.audio.get_file()
GetFile1(r) ==
    /\ script = "neuro_secretary"
    /\ pc[r] = "Received"
    /\ LoopFree(r)
    /\ \/ \E f \in FileIds :
            /\ fid' = [fid EXCEPT ![r] = f]
            /\ Step(r, "GotFile", <<"get_file">>)
       \/ /\ Raise1(r, <<"get_file">>)
          /\ UNCHANGED fid
    /\ UNCHANGED <<script, procOf, disk, cache, transcript, analysis, result,
                   protocol, hit, origin, overlapped>>

\* await file.download_to_drive("input_audio.wav")
Download1(r) ==
    /\ script = "neuro_secretary"
    /\ pc[r] = "GotFile"
    /\ LoopFree(r)
    /\ \/ /\ disk' = WriteFile(disk, InputAudio, Remote(fid[r]))
          /\ Step(r, "Downloaded", <<"download_to_drive", "download_to_drive:return">>)
       \/ /\ Raise1(r, <<"download_to_drive">>)
          /\ UNCHANGED disk
    /\ UNCHANGED <<script, procOf, fid, cache, transcript, analysis, result,
                   protocol, hit, origin, overlapped>>

\* clean_audio("input_audio.wav", "cleaned_audio.wav"): no check of the sample count
CleanAudio1(r) ==
    /\ script = "neuro_secretary"
    /\ pc[r] = "Downloaded"
    /\ LoopFree(r)
    /\ \/ /\ disk' = WriteFile(disk, CleanedAudio, [disk[InputAudio] EXCEPT !.cleaned = TRUE])
          /\ Step(r, "Cleaned", <<"clean_audio", "sf.read", "nr.reduce_noise",
                                  "sf.write", "clean_audio:return">>)
       \/ \* nr.reduce_noise raises
          /\ Raise1(r, <<"clean_audio", "sf.read", "nr.reduce_noise">>)
          /\ UNCHANGED disk
    /\ UNCHANGED <<script, procOf, fid, cache, transcript, analysis, result,
                   protocol, hit, origin, overlapped>>

\* transcript = transcribe_audio("cleaned_audio.wav"): no check of the duration
TranscribeAudio1(r) ==
    /\ script = "neuro_secretary"
    /\ pc[r] = "Cleaned"
    /\ \/ \E t \in Transcripts :
            /\ transcript' = [transcript EXCEPT ![r] = t]
            /\ Step(r, "Transcribed", <<"transcribe_audio", "whisper.load_model",
                                        "model.transcribe", "transcribe_audio:return">>)
       \/ \* model.transcribe raises
          /\ Raise1(r, <<"transcribe_audio", "whisper.load_model", "model.transcribe">>)
          /\ UNCHANGED transcript
    /\ UNCHANGED <<script, procOf, fid, disk, cache, analysis, result,
                   protocol, hit, origin, overlapped>>

\* analysis_result = analyze_text(transcript)
AnalyzeText1(r) ==
    /\ script = "neuro_secretary"
    /\ pc[r] = "Transcribed"
    /\ \/ \E a \in Analyses :
            /\ analysis' = [analysis EXCEPT ![r] = a]
            /\ Step(r, "Analyzed", <<"analyze_text", "ChatCompletion.create(analyze)",
                                     "analyze_text:return">>)
       \/ /\ Raise1(r, <<"analyze_text", "ChatCompletion.create(analyze)">>)
          /\ UNCHANGED analysis
    /\ UNCHANGED <<script, procOf, fid, disk, cache, transcript, result,
                   protocol, hit, origin, overlapped>>

\* protocol = generate_protocol(analysis_result): always the LLM, no cache
GenerateProtocol1(r) ==
    /\ script = "neuro_secretary"
    /\ pc[r] = "Analyzed"
    /\ \/ \E p \in Replies :
            /\ protocol' = [protocol EXCEPT ![r] = p]
            /\ Step(r, "ProtocolReady", <<"generate_protocol", "ChatCompletion.create(protocol)",
                                          "generate_protocol:return">>)
       \/ /\ Raise1(r, <<"generate_protocol", "ChatCompletion.create(protocol)">>)
          /\ UNCHANGED protocol
    /\ UNCHANGED <<script, procOf, fid, disk, cache, transcript, analysis, result,
                   hit, origin, overlapped>>

\* await update.message.reply_text(protocol): the platform refuses an empty text
SendReply1(r) ==
    /\ script = "neuro_secretary"
    /\ pc[r] = "ProtocolReady"
    /\ \/ /\ protocol[r] # << >>
          /\ pc' = [pc EXCEPT ![r] = "Delivered"]
          /\ calls' = [calls EXCEPT ![r] = @ \o <<"reply_text", "reply_text:return">>]
          /\ replies' = [replies EXCEPT ![r] = Append(@, ProtocolMsg(protocol[r]))]
          /\ UNCHANGED log
       \/ Raise1(r, <<"reply_text">>)
    /\ UNCHANGED <<script, procOf, fid, disk, cache, transcript, analysis, result,
                   protocol, hit, origin, overlapped>>

Next1 ==
    \E r \in Requests :
        \/ GetFile1(r)
        \/ Download1(r)
        \/ CleanAudio1(r)
        \/ TranscribeAudio1(r)
        \/ AnalyzeText1(r)
        \/ GenerateProtocol1(r)
        \/ SendReply1(r)

NextBoth == Next \/ Next1

Spec == Init /\ [][Next]_vars

SpecConc == InitConc /\ [][Next]_vars

SpecBoth == InitBoth /\ [][NextBoth]_vars

-----------------------------------------------------------------------------
(* History projections used by the properties *)

Contains(seq, x) == \E i \in DOMAIN seq : seq[i] = x

\* handle_audio's stage calls in program order
StageOrder == <<"download_to_drive", "clean_audio", "transcribe_audio",
                "analyze_text", "generate_protocol", "reply_text">>
ReturnOrder == <<"download_to_drive:return", "clean_audio:return", "transcribe_audio:return",
                 "analyze_text:return", "generate_protocol:return", "reply_text:return">>

\* each stage entered, then returned from, before the next is entered
StageTrace == [i \in 1..(2 * Len(StageOrder)) |->
                 IF i % 2 = 1 THEN StageOrder[(i + 1) \div 2] ELSE ReturnOrder[i \div 2]]

Stages == {StageOrder[i] : i \in DOMAIN StageOrder}
Returns == {ReturnOrder[i] : i \in DOMAIN ReturnOrder}

IsStage(c) == c \in Stages
IsReturn(c) == c \in Returns
IsStageEvent(c) == c \in Stages \cup Returns

\* the stages a request has entered, and those that returned normally, in order
Started(r) == SelectSeq(calls[r], IsStage)
Completed(r) == SelectSeq(calls[r], IsReturn)
StageEvents(r) == SelectSeq(calls[r], IsStageEvent)

IsPrefix(s, t) == Len(s) <= Len(t) /\ s = SubSeq(t, 1, Len(s))

\* the attachment of request r (its file_id fixes the content)
Audio(r) == Remote(fid[r])

SentProtocol(r) == \E i \in DOMAIN replies[r] : replies[r][i].kind = "protocol"
SentNotice(r) == Contains(replies[r], NoticeMsg)

-----------------------------------------------------------------------------
(* Properties *)

\* C1: once generate_protocol(A) has written reply R to the cache, every later
\* generate_protocol(A) returns exactly R and makes no LLM call.
C1_LaterCallReturnsFirstReply ==
    \A r \in Requests :
        hit[r] =>
            /\ protocol[r] = origin[analysis[r]]
            /\ ~Contains(calls[r], "ChatCompletion.create(protocol)")

\* C2: within one request the stages run in the order download, clean, transcribe,
\* analyze, generate protocol, reply; a stage is entered only after the one before it
\* has returned normally; none is skipped or run twice on the way to Delivered.
C2_StagesInOrder ==
    \A r \in Requests :
        /\ IsPrefix(StageEvents(r), StageTrace)
        /\ (pc[r] \in {"Delivered", "Done"} \/ SentProtocol(r)) =>
              StageEvents(r) = StageTrace

C2_Witness ==
    /\ script = "neuro_secretary"
    /\ \E r \in Requests : pc[r] = "Delivered" /\ Completed(r) = ReturnOrder

\* a stage of request r was entered and did not return normally
C3_FailedStage(r) ==
    /\ Len(Started(r)) > Len(Completed(r))
    /\ pc[r] \notin {"GenMiss", "GenReplied"}

C3_StateInv ==
    \A r \in Requests :
        C3_FailedStage(r) =>
            /\ pc[r] = "Failed"
            /\ Len(Started(r)) = Len(Completed(r)) + 1
            /\ IsPrefix(Started(r), StageOrder)
            /\ replies[r] = <<NoticeMsg>>
            /\ calls[r][Len(calls[r])] = "reply_text(notice)"
            /\ Started(r)[Len(Started(r))] = "analyze_text" =>
                  /\ ~Contains(calls[r], "generate_protocol")
                  /\ ~Contains(calls[r], "ChatCompletion.create(protocol)")
                  /\ ~Contains(calls[r], "f.write")

\* C3: when a stage of a request fails, no later stage is run for it and the user gets
\* the failure notice; when analyze_text fails, generate_protocol is not called, no
\* protocol request goes to the LLM and the cache is left as it was.
C3_FailureAbortsRequest ==
    /\ []C3_StateInv
    /\ [][\A r \in Requests :
            /\ (pc[r] # "Failed" /\ pc'[r] = "Failed") => cache' = cache
            /\ pc[r] = "Failed" =>
                  /\ pc'[r] = "Failed"
                  /\ calls'[r] = calls[r]
                  /\ replies'[r] = replies[r]]_vars

C3_Witness ==
    \E r \in Requests :
        /\ pc[r] = "Failed"
        /\ Started(r) = SubSeq(StageOrder, 1, 4)
        /\ Len(Completed(r)) = 3
        /\ DOMAIN cache # {}

\* C4: a success reply never carries an empty protocol text, whether the text came from
\* the LLM or from a cache file.
C4_NoEmptyProtocolDelivered ==
    \A r \in Requests : \A i \in DOMAIN replies[r] :
        replies[r][i].kind = "protocol" => replies[r][i].text # << >>

C6_DurationCeiling ==
    \A r \in Requests :
        Contains(calls[r], "transcribe_audio") =>
            /\ Audio(r).frames <= 7200 * Audio(r).samplerate =>
                  Contains(calls[r], "WHISPER_MODEL.transcribe")
            /\ Audio(r).frames > 7200 * Audio(r).samplerate =>
                  /\ ~Contains(calls[r], "WHISPER_MODEL.transcribe")
                  /\ pc[r] = "Failed"
                  /\ log[r] = <<"transcribe_audio", "handle_audio">>
                  /\ transcript[r] = None

C6_Witness ==
    \E r1, r2 \in Requests :
        /\ fid[r1] = "exact"
        /\ Audio(r1).frames = 7200 /\ Audio(r1).samplerate = 1
        /\ transcript[r1] # None
        /\ fid[r2] = "over"
        /\ Audio(r2).frames = 7201 /\ Audio(r2).samplerate = 1
        /\ Contains(calls[r2], "transcribe_audio")
        /\ pc[r2] = "Failed"

\* C7: for an attachment of zero samples clean_audio raises before the noise reduction
\* and before the output file is written, and transcribe_audio is never called.
C7_EmptyAudioRejected ==
    /\ \A r \in Requests :
          (Contains(calls[r], "clean_audio") /\ Audio(r).frames = 0) =>
              /\ ~Contains(calls[r], "nr.reduce_noise")
              /\ ~Contains(calls[r], "sf.write")
              /\ ~Contains(calls[r], "transcribe_audio")
              /\ pc[r] = "Failed"
              /\ log[r] = <<"clean_audio", "handle_audio">>
    /\ \A f \in FileIds :
          (Remote(f).frames = 0 /\ Exists(disk, TempName(f))) =>
              disk[TempName(f)] = Remote(f)

C7_Witness ==
    \E r \in Requests :
        /\ Contains(calls[r], "clean_audio")
        /\ Audio(r).frames = 0
        /\ Exists(disk, TempName(fid[r]))

C10_OneReplyNeverBoth ==
    \A r \in Requests : ~(SentProtocol(r) /\ SentNotice(r))

====
